---- MODULE Spec2Model ----
(***************************************************************************)
(* Event / meeting subsystem of the academic-platform backend.             *)
(*                                                                         *)
(* The event store (the Mongo collection behind the Event model) is the    *)
(* only shared state.  Every Express handler is an async function: each    *)
(* `await` is a point where other requests interleave, and each store      *)
(* operation (save, findById, findOne, findByIdAndDelete) is atomic on one *)
(* record.  A handler is modelled as one action per store operation.       *)
(***************************************************************************)
EXTENDS Integers, FiniteSets, Sequences, TLC

\* ------------------------------------------------------------------ bounds
MaxProcs == 2   \* requests handled concurrently
MaxReqs == 3    \* requests started in one run
MaxId == 4      \* event ids (ObjectIds) handed out in one run
MaxCreateReqs == 2  \* requests started in one run of SpecCreate
MaxUpdateReqs == 2  \* requests started in one run of SpecUpdate
MaxNow == 2     \* clock readings (Date.now()) in one run

Procs == 1..MaxProcs
EventIds == 1..MaxId

\* ------------------------------------------------------------- value domains
Undef == "undefined"   \* a string-valued body field that was omitted
UndefNum == -1         \* a number-valued body field that was omitted
NullId == 0
Null == [id |-> NullId]   \* what findById / findOne resolve to when nothing matches

Users == {"u1", "u2"}            \* the User collection
UserIds == Users \cup {"u9"}     \* well-formed ids a caller may send; u9 is no User
Names == {"Advising"}
Descs == {"agenda"}
Dates == 1..2
Times == {"09:00"}
Durations == {UndefNum, 45}

EventTypes == {"Assignment", "Exam", "Reminder", "Meeting"}
RelatedModels == {"Subject", "Grade", "Assignment", "User"}

DefaultDuration == 30

\* Request bodies of POST /events/meetings.
MeetingBodies ==
  [name : Names, description : Descs, date : Dates, time : Times,
   duration : Durations, advisorId : UserIds, studentId : UserIds]

\* The bodies the full system is run with: one date, no duration, and the
\* advisor one of u1 and u9 (u1 and u2 are interchangeable).
SlimMeetingBodies ==
  {b \in MeetingBodies : /\ b.description = "agenda"
                         /\ b.duration = UndefNum
                         /\ b.date = 1
                         /\ b.advisorId \in {"u1", "u9"}}

\* Request bodies of POST /events used here: a plain Exam event.
CreateBodies ==
  [name : Names, type : {"Exam"}, description : {Undef}, date : {1},
   user_id : {"u1", "u9"}, related_id : {Undef}, relatedModel : {Undef},
   time : {Undef}, duration : {UndefNum}]

\* Request bodies of POST /events with every field that decides the outcome
\* given or not: name, type and date valid or not, the owner a User or not, and
\* every combination of related_id and relatedModel (s1 is a Subject, u1 a User).
WideCreateBodies ==
  [name : {"Advising", Undef}, type : {"Exam", "Bogus"}, description : {Undef},
   date : {1, UndefNum}, user_id : {"u1", "u9"},
   related_id : {Undef, "s1", "u1"},
   relatedModel : {Undef, "Bogus"} \cup RelatedModels,
   time : {Undef}, duration : {UndefNum}]

\* Request bodies of POST /events for the listing: two owners, two types,
\* dates before, at and after the clock readings.
ListCreateBodies ==
  [name : Names, type : {"Exam", "Reminder"}, description : {Undef},
   date : 0..2, user_id : Users,
   related_id : {Undef}, relatedModel : {Undef},
   time : {Undef}, duration : {UndefNum}]

\* req.query.past and req.query.type of GET /events/user/:userId.
PastParams == {Undef, "true", "false"}

TypeParams == {Undef, "Exam"}

\* The users whose role is 'advisor'.
Advisors == {"u1"}

\* Request bodies of POST /api/feedback (a1 is an Assignment, s1 a Subject).
FeedbackBodies ==
  [advisor_id : UserIds, student_id : {"u2", "u9"},
   assignment_id : {Undef, "a1", "a9"}, subject_id : {Undef, "s1"},
   feedback_text : {Undef, "well done"}, rating : {UndefNum, 4, 6}]

\* How the backend settles a write: it succeeds, or it rejects with an error
\* whose message is one of BackendErrors.
BackendOk == "ok"

BackendErrors == {"ECONNRESET", "E11000 duplicate key"}

Outcomes == {BackendOk} \cup BackendErrors

SlimOutcomes == {BackendOk, "ECONNRESET"}

\* error.message of the ValidationError a save rejects with.
ValidationMessage == "Event validation failed"

VARIABLES
  events,    \* the Event collection: a set of documents with distinct ids
  nextId,    \* the next ObjectId `new Event(...)` hands out
  pc,        \* pc[p]: where handler p stands
  req,       \* req[p]: the request handler p serves
  loc,       \* loc[p]: the handler's local variables and its store operations in flight
  last,      \* the response sent last: its request, its body, what the call did
  started,   \* number of requests started
  serial,    \* TRUE: requests arrive one after the other (never changes)
  meetings,  \* history: the id pairs returned by 201 responses of scheduleMeeting
  now,       \* the clock Date.now() and new Date() read
  feedback   \* the Feedback collection: a set of documents with distinct ids

vars ==
  <<events, nextId, pc, req, loc, last, started, serial, meetings, now, feedback>>

NoReq == [op |-> "none"]
NoLoc == [op |-> "none"]
NoLast == [req |-> NoReq, resp |-> [status |-> 0], did |-> NoLoc]

\* ------------------------------------------------------------ the store
Ids(S) == {e.id : e \in S}

EventFindById(id) ==
  IF id \in Ids(events) THEN CHOOSE e \in events : e.id = id ELSE Null

StoreDelete_OwnersRecords(S, id) ==
  {e \in S : \A m \in S : m.id = id => e.user_id # m.user_id}

\* findByIdAndDelete, and deleteOne behind it: the collection without the record.
StoreDelete(S, id) == {e \in S : e.id # id}

FreshId_ByCount(k) == Cardinality(events) + 1 + k

\* The _id `new Event(...)` assigns: never one handed out before.
FreshId(k) == nextId + k

UserFindById_Anyone(id) == TRUE

UserFindById(id) == id \in Users

\* Subject, Grade and Assignment collections: one record each.
Collection(kind) ==
  CASE kind = "Subject" -> {"s1"}
    [] kind = "Grade" -> {"g1"}
    [] kind = "Assignment" -> {"a1"}
    [] kind = "User" -> Users
    [] OTHER -> {}

RelatedDispatch_GradeAsSubject(model) ==
  CASE model = "Subject" -> "Subject"
    [] model = "Grade" -> "Subject"
    [] model = "Assignment" -> "Assignment"
    [] model = "User" -> "User"
    [] OTHER -> "none"

\* The switch on relatedModel: the collection whose findById is called.
RelatedDispatch(model) ==
  CASE model = "Subject" -> "Subject"
    [] model = "Grade" -> "Grade"
    [] model = "Assignment" -> "Assignment"
    [] model = "User" -> "User"
    [] OTHER -> "none"

\* relatedEntity is truthy: the collection dispatched to holds the id.
RelatedExists(model, id) == id \in Collection(RelatedDispatch(model))

\* Mongoose validation run by save(): required paths and enums of eventSchema.
Validates(doc) ==
  /\ doc.name \notin {Undef, ""}
  /\ doc.type \in EventTypes
  /\ doc.date # UndefNum
  /\ doc.user_id # Undef
  /\ doc.relatedModel \in RelatedModels \cup {Undef}

\* error.message of a save that rejects: the schema validation runs before the
\* write is sent to the backend.
SaveError(doc, outcome) == IF ~Validates(doc) THEN ValidationMessage ELSE outcome

\* ------------------------------------------------------------ handlers
\* A handler slot is free when its request was answered and none of its store
\* operations is still in flight.
Free(p) == pc[p] = "idle"

\* A request is taken by the lowest free slot (slots are interchangeable).
CanStart(p) ==
  /\ started < MaxReqs
  /\ Free(p)
  /\ \A q \in Procs : q < p => ~Free(q)
  /\ serial => \A q \in Procs : Free(q)

Begin(p) ==
  /\ CanStart(p)
  /\ started' = started + 1

\* res.status(..).json(..): the response is sent and the handler returns.
Respond(p, request, r, did) ==
  /\ last' = [req |-> request, resp |-> r, did |-> did]
  /\ pc' = [pc EXCEPT ![p] = "idle"]
  /\ req' = [req EXCEPT ![p] = NoReq]
  /\ loc' = [loc EXCEPT ![p] = NoLoc]

\* ------------------------------------------------------------ scheduleMeeting
\* Line 115: duration = 30 when the body has none.
ScheduleDuration(body) ==
  IF body.duration = UndefNum THEN DefaultDuration ELSE body.duration

\* Lines 134-144.
StudentEvent(body, id) ==
  [id |-> id, name |-> body.name, type |-> "Meeting",
   description |-> body.description, date |-> body.date, time |-> body.time,
   duration |-> ScheduleDuration(body), user_id |-> body.studentId,
   related_id |-> body.advisorId, relatedModel |-> "User",
   created_at |-> now, updated_at |-> now]

AdvisorEvent_StudentCopy(body, id) ==
  [id |-> id, name |-> body.name, type |-> "Meeting",
   description |-> body.description, date |-> body.date, time |-> body.time,
   duration |-> ScheduleDuration(body), user_id |-> body.studentId,
   related_id |-> body.advisorId, relatedModel |-> "User",
   created_at |-> now, updated_at |-> now]

\* Lines 147-157.
AdvisorEvent(body, id) ==
  [id |-> id, name |-> body.name, type |-> "Meeting",
   description |-> body.description, date |-> body.date, time |-> body.time,
   duration |-> ScheduleDuration(body), user_id |-> body.advisorId,
   related_id |-> body.studentId, relatedModel |-> "User",
   created_at |-> now, updated_at |-> now]

MeetingLookup_AdvisorOnly(body) ==
  IF ~UserFindById(body.advisorId) THEN "Advisor not found" ELSE "ok"

\* Lines 120-131: the outcome of the two lookups joined by Promise.all.
MeetingLookup(body) ==
  IF ~UserFindById(body.advisorId) THEN "Advisor not found"
  ELSE IF ~UserFindById(body.studentId) THEN "Student not found"
  ELSE "ok"

SavesJoin_AllSettled(saves) ==
  IF saves.student = "pending" \/ saves.advisor = "pending" THEN "pending"
  ELSE "resolved"

\* Promise.all over the two saves: rejects with the first rejection, resolves
\* when both have resolved, is pending otherwise.
SavesJoin(saves) ==
  IF saves.student = "failed" \/ saves.advisor = "failed" THEN "rejected"
  ELSE IF saves.student = "ok" /\ saves.advisor = "ok" THEN "resolved"
  ELSE "pending"

SavePending(saves) == saves.student = "pending" \/ saves.advisor = "pending"

\* Lines 108-157: destructure the body, look both users up, build both documents
\* and issue both saves.
ScheduleMeeting(p, body) ==
  /\ Begin(p)
  /\ IF MeetingLookup(body) # "ok"
     THEN /\ Respond(p, [op |-> "scheduleMeeting", body |-> body],
                     [status |-> 404, message |-> MeetingLookup(body)],
                     [op |-> "sm", written |-> {}])
          /\ UNCHANGED nextId
     ELSE /\ FreshId(1) <= MaxId
          /\ req' = [req EXCEPT ![p] = [op |-> "scheduleMeeting", body |-> body]]
          /\ loc' = [loc EXCEPT ![p] =
                 [op |-> "sm",
                  studentEvent |-> StudentEvent(body, FreshId(0)),
                  advisorEvent |-> AdvisorEvent(body, FreshId(1)),
                  saves |-> [student |-> "pending", advisor |-> "pending"],
                  written |-> {}]]
          /\ nextId' = nextId + 2
          /\ pc' = [pc EXCEPT ![p] = "sm_save"]
          /\ UNCHANGED last
  /\ UNCHANGED <<events, serial, meetings, now, feedback>>

SaveDoc(p, w) == IF w = "student" THEN loc[p].studentEvent ELSE loc[p].advisorEvent

\* Lines 159-171: one of the two saves settles.  An outcome other than
\* BackendOk is a persistence failure of that write.  The handler responds as soon as
\* Promise.all settles; a save still in flight then settles later ("sm_late").
SaveSettles(p, w, outcome) ==
  /\ pc[p] \in {"sm_save", "sm_late"}
  /\ loc[p].saves[w] = "pending"
  /\ LET ok == outcome = BackendOk /\ Validates(SaveDoc(p, w))
         saves == [loc[p].saves EXCEPT ![w] = IF ok THEN "ok" ELSE "failed"]
         did == [loc[p] EXCEPT !.saves = saves,
                               !.written = IF ok THEN @ \cup ({SaveDoc(p, w)} \ events)
                                           ELSE @]
     IN /\ events' = IF ok THEN events \cup {SaveDoc(p, w)} ELSE events
        /\ IF pc[p] = "sm_late"
           THEN \* the response is out already; the slot is free once this settled
                /\ pc' = [pc EXCEPT ![p] = "idle"]
                /\ req' = [req EXCEPT ![p] = NoReq]
                /\ loc' = [loc EXCEPT ![p] = NoLoc]
                /\ UNCHANGED <<last, meetings>>
           ELSE IF SavesJoin(saves) = "rejected"
           THEN /\ last' = [req |-> req[p],
                            resp |-> [status |-> 500,
                                      message |-> "Error scheduling meeting",
                                      error |-> SaveError(SaveDoc(p, w), outcome)],
                            did |-> did]
                /\ IF SavePending(saves)
                   THEN /\ pc' = [pc EXCEPT ![p] = "sm_late"]
                        /\ loc' = [loc EXCEPT ![p] = did]
                        /\ UNCHANGED req
                   ELSE /\ pc' = [pc EXCEPT ![p] = "idle"]
                        /\ req' = [req EXCEPT ![p] = NoReq]
                        /\ loc' = [loc EXCEPT ![p] = NoLoc]
                /\ UNCHANGED meetings
           ELSE IF SavesJoin(saves) = "resolved"
           THEN /\ Respond(p, req[p],
                           [status |-> 201,
                            studentEvent |-> loc[p].studentEvent,
                            advisorEvent |-> loc[p].advisorEvent],
                           did)
                /\ meetings' = meetings \cup
                     {<<loc[p].studentEvent.id, loc[p].advisorEvent.id>>}
           ELSE /\ loc' = [loc EXCEPT ![p] = did]
                /\ UNCHANGED <<pc, req, last, meetings>>
  /\ UNCHANGED <<nextId, started, serial, now, feedback>>

\* ------------------------------------------------------------ createEvent
ValidateRelated_Skipped(body) == "ok"

\* Lines 47-69: the related-reference check.
ValidateRelated(body) ==
  IF body.related_id # Undef /\ body.relatedModel # Undef
  THEN IF body.relatedModel \notin RelatedModels THEN "Invalid related model"
       ELSE IF ~RelatedExists(body.relatedModel, body.related_id)
            THEN "not found"
            ELSE "ok"
  ELSE "ok"

\* Lines 71-81.
NewEvent(body, id) ==
  [id |-> id, name |-> body.name, type |-> body.type,
   description |-> body.description, date |-> body.date, time |-> body.time,
   duration |-> body.duration, user_id |-> body.user_id,
   related_id |-> body.related_id, relatedModel |-> body.relatedModel,
   created_at |-> now, updated_at |-> now]

\* The findById the related-reference check calls: <<collection, id>>, or
\* none when the check is skipped or the switch takes its default branch.
NoLookup == <<"none", Undef>>

RelatedLookup(body) ==
  IF body.related_id # Undef /\ body.relatedModel # Undef
     /\ RelatedDispatch(body.relatedModel) # "none"
  THEN <<RelatedDispatch(body.relatedModel), body.related_id>>
  ELSE NoLookup

\* What a createEvent call did: the related lookup it made, the documents it
\* inserted.
CreateDid(lookup, written) == [op |-> "ce", lookup |-> lookup, written |-> written]

\* Lines 27-88.  The User, Subject, Grade and Assignment collections do not
\* change, so the lookups and the save are one step.
CreateEvent(p, body, outcome) ==
  /\ Begin(p)
  /\ LET request == [op |-> "createEvent", body |-> body]
         doc == NewEvent(body, FreshId(0))
     IN IF ~UserFindById(body.user_id)
        THEN /\ Respond(p, request, [status |-> 404, message |-> "User not found"],
                        CreateDid(NoLookup, {}))
             /\ UNCHANGED <<events, nextId>>
        ELSE IF ValidateRelated(body) = "Invalid related model"
        THEN /\ Respond(p, request,
                        [status |-> 400, message |-> "Invalid related model"],
                        CreateDid(RelatedLookup(body), {}))
             /\ UNCHANGED <<events, nextId>>
        ELSE IF ValidateRelated(body) = "not found"
        THEN /\ Respond(p, request,
                        [status |-> 404,
                         message |-> body.relatedModel \o " not found"],
                        CreateDid(RelatedLookup(body), {}))
             /\ UNCHANGED <<events, nextId>>
        ELSE /\ FreshId(0) <= MaxId
             /\ nextId' = nextId + 1
             /\ IF outcome = BackendOk /\ Validates(doc)
                THEN /\ events' = events \cup {doc}
                     /\ Respond(p, request, [status |-> 201, event |-> doc],
                                CreateDid(RelatedLookup(body), {doc} \ events))
                ELSE /\ UNCHANGED events
                     /\ Respond(p, request,
                                [status |-> 500, message |-> "Error creating event",
                                 error |-> SaveError(doc, outcome)],
                                CreateDid(RelatedLookup(body), {}))
  /\ UNCHANGED <<serial, meetings, now, feedback>>

\* ------------------------------------------------------------ deleteEvent
\* Lines 376-387.
DeleteEvent(p, id) ==
  /\ Begin(p)
  /\ events' = StoreDelete(events, id)
  /\ IF EventFindById(id) = Null
     THEN Respond(p, [op |-> "deleteEvent", id |-> id],
                  [status |-> 404, message |-> "Event not found"], NoLoc)
     ELSE Respond(p, [op |-> "deleteEvent", id |-> id],
                  [status |-> 200, message |-> "Event deleted successfully"], NoLoc)
  /\ UNCHANGED <<nextId, serial, meetings, now, feedback>>

\* ------------------------------------------------------------ cancelMeeting
IsMeeting_AnyType(doc) == doc # Null

\* Line 406.
IsMeeting(doc) == doc # Null /\ doc.type = "Meeting"

\* The filter of the counterpart query, lines 411-417.
CounterpartFilter(m, e) ==
  /\ e.type = "Meeting"
  /\ e.date = m.date
  /\ e.time = m.time
  /\ e.related_id = m.user_id
  /\ e.user_id = m.related_id

\* findOne without a sort resolves to some matching document, or to null.
FindOneResults(m) ==
  IF \E e \in events : CounterpartFilter(m, e)
  THEN {e \in events : CounterpartFilter(m, e)}
  ELSE {Null}

\* Line 430.
CanceledEvents(counterpart) == IF counterpart # Null THEN 2 ELSE 1

\* Lines 400-408: load the record.  liveAtCall and removed record what the call
\* met and what it did.
CancelMeeting(p, id) ==
  /\ Begin(p)
  /\ LET request == [op |-> "cancelMeeting", id |-> id]
         did == [op |-> "cm", meetingEvent |-> EventFindById(id),
                 counterpart |-> Null, dels |-> {}, removed |-> {},
                 liveAtCall |-> Ids(events), storeAtCall |-> events]
     IN IF ~IsMeeting(EventFindById(id))
        THEN Respond(p, request, [status |-> 404, message |-> "Meeting not found"],
                     did)
        ELSE /\ pc' = [pc EXCEPT ![p] = "cm_findOne"]
             /\ req' = [req EXCEPT ![p] = request]
             /\ loc' = [loc EXCEPT ![p] = did]
             /\ UNCHANGED last
  /\ UNCHANGED <<events, nextId, serial, meetings, now, feedback>>

\* Lines 410-424: query the counterpart, then build deleteOperations: one
\* findByIdAndDelete for the record and, with a counterpart, one for it.
CancelFindCounterpart(p, c) ==
  /\ pc[p] = "cm_findOne"
  /\ c \in FindOneResults(loc[p].meetingEvent)
  /\ loc' = [loc EXCEPT ![p].counterpart = c,
                        ![p].dels = IF c # Null
                                    THEN {<<"record", req[p].id>>,
                                          <<"counterpart", c.id>>}
                                    ELSE {<<"record", req[p].id>>}]
  /\ pc' = [pc EXCEPT ![p] = "cm_delete"]
  /\ UNCHANGED <<events, nextId, req, last, started, serial, meetings, now, feedback>>

\* Lines 426-431: one findByIdAndDelete of deleteOperations takes effect; when
\* the last one has, the handler responds.
CancelDelete(p, d) ==
  /\ pc[p] = "cm_delete"
  /\ d \in loc[p].dels
  /\ events' = StoreDelete(events, d[2])
  /\ LET did == [loc[p] EXCEPT !.dels = @ \ {d},
                               !.removed = @ \cup ({d[2]} \cap Ids(events))]
     IN IF did.dels = {}
        THEN Respond(p, req[p],
                     [status |-> 200, message |-> "Meeting canceled successfully",
                      canceledEvents |-> CanceledEvents(loc[p].counterpart)],
                     did)
        ELSE /\ loc' = [loc EXCEPT ![p] = did]
             /\ UNCHANGED <<pc, req, last>>
  /\ UNCHANGED <<nextId, started, serial, meetings, now, feedback>>

\* ------------------------------------------------------------ updateEvent
\* The fields updateEvent destructures from req.body, lines 305-314 (user_id is
\* not among them).
UpdateFields ==
  {"name", "type", "description", "date", "related_id", "relatedModel", "time",
   "duration"}

\* Request bodies of PUT /events/:id; a user_id in the body is ignored.
UpdateBodies ==
  [name : {Undef}, type : {Undef}, description : {Undef},
   date : {UndefNum, 2}, user_id : {Undef, "u2"},
   related_id : {Undef, "s1"},
   relatedModel : {Undef, "Subject", "User", "Bogus"},
   time : {Undef}, duration : {UndefNum}]

\* Request bodies of PUT /events/:id that carry values the schema rejects on
\* save: an empty name, a type outside the enum.
SchemaUpdateBodies ==
  [name : {Undef, ""}, type : {Undef, "Reminder", "Bogus"}, description : {Undef},
   date : {UndefNum}, user_id : {Undef},
   related_id : {Undef}, relatedModel : {Undef},
   time : {Undef}, duration : {UndefNum}]

\* The field was not in the body: its destructured value is undefined.
IsUndefined(f, v) == IF f \in {"date", "duration"} THEN v = UndefNum ELSE v = Undef

ApplyUpdate_SetAll(e, body) ==
  [f \in DOMAIN e |->
     IF f \in UpdateFields THEN body[f]
     ELSE IF f = "updated_at" THEN now ELSE e[f]]

\* The update document of lines 342-352 applied to a record: keys whose value
\* is undefined are left out of the update, updated_at is set to Date.now().
ApplyUpdate(e, body) ==
  [f \in DOMAIN e |->
     IF f \in UpdateFields /\ ~IsUndefined(f, body[f]) THEN body[f]
     ELSE IF f = "updated_at" THEN now ELSE e[f]]

UpdateTargets_WithCounterpart(S, id) ==
  {e \in S : \/ e.id = id
             \/ \E m \in S : m.id = id /\ CounterpartFilter(m, e)}

\* findByIdAndUpdate matches the record with the given _id.
UpdateTargets(S, id) == {e \in S : e.id = id}

\* What an updateEvent call did: the records it matched and what it wrote in
\* their place.
UpdateDid(before, written) == [op |-> "ue", before |-> before, written |-> written]

\* Lines 302-363.  The related reference is validated before the record is
\* looked up; findByIdAndUpdate runs no schema validators.
UpdateEvent(p, id, body) ==
  /\ Begin(p)
  /\ LET request == [op |-> "updateEvent", id |-> id, body |-> body]
         targets == UpdateTargets(events, id)
         written == {ApplyUpdate(e, body) : e \in targets}
     IN IF ValidateRelated(body) = "Invalid related model"
        THEN /\ Respond(p, request,
                        [status |-> 400, message |-> "Invalid related model"],
                        UpdateDid({}, {}))
             /\ UNCHANGED events
        ELSE IF ValidateRelated(body) = "not found"
        THEN /\ Respond(p, request,
                        [status |-> 404,
                         message |-> body.relatedModel \o " not found"],
                        UpdateDid({}, {}))
             /\ UNCHANGED events
        ELSE IF targets = {}
        THEN /\ Respond(p, request,
                        [status |-> 404, message |-> "Event not found"],
                        UpdateDid({}, {}))
             /\ UNCHANGED events
        ELSE /\ events' = (events \ targets) \cup written
             /\ Respond(p, request,
                        [status |-> 200,
                         event |-> ApplyUpdate(EventFindById(id), body)],
                        UpdateDid(targets, written))
  /\ UNCHANGED <<nextId, serial, meetings, now, feedback>>

\* ------------------------------------------------------------ getUserEvents
DateFilter_UpToNow(past, d) == IF past = "true" THEN d <= now ELSE d >= now

\* Lines 261-265: $lt currentDate when past is the string 'true', else $gte.
DateFilter(past, d) == IF past = "true" THEN d < now ELSE d >= now

\* Line 274: -1 (descending) for past, 1 (ascending) otherwise.
SortDirection(past) == IF past = "true" THEN -1 ELSE 1

\* Lines 259-270: the query.
UserEventsQuery(userId, type, past) ==
  {e \in events : /\ e.user_id = userId
                  /\ DateFilter(past, e.date)
                  /\ type # Undef => e.type = type}

\* find(query).sort({date: dir}): the matching documents in an order sorted by
\* date; documents of equal date come in either order.
FindSorted(S, dir) ==
  {r \in [1..Cardinality(S) -> S] :
     /\ \A e \in S : \E i \in DOMAIN r : r[i] = e
     /\ \A i, j \in DOMAIN r : i < j => dir * r[i].date <= dir * r[j].date}

\* Lines 244-288.  The populate calls after the query do not change which
\* documents are listed.
GetUserEvents(p, userId, type, past) ==
  /\ Begin(p)
  /\ LET request == [op |-> "getUserEvents", userId |-> userId, type |-> type,
                     past |-> past]
     IN IF ~UserFindById(userId)
        THEN Respond(p, request, [status |-> 404, message |-> "User not found"],
                     NoLoc)
        ELSE \E r \in FindSorted(UserEventsQuery(userId, type, past),
                                 SortDirection(past)) :
               Respond(p, request, [status |-> 200, events |-> r], NoLoc)
  /\ UNCHANGED <<events, nextId, serial, meetings, now, feedback>>

\* ------------------------------------------------------------ feedback
\* The schema of models/feedback.js, lines 19-28.
FeedbackValidates(doc) ==
  /\ doc.advisor_id # Undef
  /\ doc.student_id # Undef
  /\ doc.feedback_text # Undef
  /\ doc.rating = UndefNum \/ doc.rating \in 1..5

\* The feedbackData of lines 275-286 as a document.
NewFeedback(body, id) ==
  [id |-> id, advisor_id |-> body.advisor_id, student_id |-> body.student_id,
   assignment_id |-> body.assignment_id, subject_id |-> body.subject_id,
   feedback_text |-> body.feedback_text, rating |-> body.rating,
   created_at |-> now, updated_at |-> now]

\* error.message of a feedback save that rejects.
FeedbackSaveError(doc, outcome) ==
  IF ~FeedbackValidates(doc) THEN "Feedback validation failed" ELSE outcome

\* createFeedback, gradeController.js lines 232-297.  The User, Assignment and
\* Subject collections do not change, so the lookups and the save are one step.
CreateFeedback(p, body, outcome) ==
  /\ Begin(p)
  /\ LET request == [op |-> "createFeedback", body |-> body]
         doc == NewFeedback(body, FreshId(0))
         Refuse(st, msg) ==
           /\ Respond(p, request, [status |-> st, message |-> msg], NoLoc)
           /\ UNCHANGED <<feedback, nextId>>
     IN IF body.assignment_id = Undef /\ body.subject_id = Undef
        THEN Refuse(400, "Feedback must be associated with either an Assignment or a Subject.")
        ELSE IF ~UserFindById(body.advisor_id)
        THEN Refuse(404, "Advisor not found")
        ELSE IF body.advisor_id \notin Advisors
        THEN Refuse(403, "Only users with advisor role can submit feedback")
        ELSE IF ~UserFindById(body.student_id)
        THEN Refuse(404, "Student not found")
        ELSE IF body.assignment_id # Undef
                /\ body.assignment_id \notin Collection("Assignment")
        THEN Refuse(404, "Assignment not found")
        ELSE IF body.subject_id # Undef
                /\ body.subject_id \notin Collection("Subject")
        THEN Refuse(404, "Subject not found")
        ELSE /\ FreshId(0) <= MaxId
             /\ nextId' = nextId + 1
             /\ IF outcome = BackendOk /\ FeedbackValidates(doc)
                THEN /\ feedback' = feedback \cup {doc}
                     /\ Respond(p, request, [status |-> 201, feedback |-> doc],
                                NoLoc)
                ELSE /\ UNCHANGED feedback
                     /\ Respond(p, request,
                                [status |-> 500,
                                 message |-> "Error creating feedback",
                                 error |-> FeedbackSaveError(doc, outcome)],
                                NoLoc)
  /\ UNCHANGED <<events, serial, meetings, now>>

\* The parameters the route '/api/feedback/:id' binds, feedbackRoutes.js
\* line 102.
FeedbackRouteParams(id) == [id |-> id]

\* req.params.<name>: undefined when the route binds no parameter of that name.
ParamOf(params, name) == IF name \in DOMAIN params THEN params[name] ELSE Undef

\* GET /api/feedback/:id, served by getFeedbackByStudent (feedbackRoutes.js
\* line 103, gradeController.js lines 311-329).  User.findById(undefined)
\* resolves to null.
GetFeedbackByStudent(p, id) ==
  /\ Begin(p)
  /\ LET request == [op |-> "getFeedback", id |-> id]
         studentId == ParamOf(FeedbackRouteParams(id), "studentId")
     IN IF ~UserFindById(studentId)
        THEN Respond(p, request, [status |-> 404, message |-> "Student not found"],
                     NoLoc)
        ELSE Respond(p, request,
                     [status |-> 200,
                      feedback |-> {f \in feedback : f.student_id = studentId}],
                     NoLoc)
  /\ UNCHANGED <<events, nextId, serial, meetings, now, feedback>>

\* ------------------------------------------------------------------ clock
\* Date.now() advances between requests.
Tick ==
  /\ now < MaxNow
  /\ now' = now + 1
  /\ UNCHANGED <<events, nextId, pc, req, loc, last, started, serial, meetings,
                 feedback>>

\* ------------------------------------------------------------ specification
InitCommon ==
  /\ events = {}
  /\ nextId = 1
  /\ pc = [p \in Procs |-> "idle"]
  /\ req = [p \in Procs |-> NoReq]
  /\ loc = [p \in Procs |-> NoLoc]
  /\ last = NoLast
  /\ started = 0
  /\ meetings = {}
  /\ now = 1
  /\ feedback = {}

Init == InitCommon /\ serial = FALSE

InitSerial == InitCommon /\ serial = TRUE

Next ==
  \E p \in Procs :
    \/ \E body \in SlimMeetingBodies : ScheduleMeeting(p, body)
    \/ \E w \in {"student", "advisor"}, o \in SlimOutcomes : SaveSettles(p, w, o)
    \/ \E body \in CreateBodies, o \in SlimOutcomes : CreateEvent(p, body, o)
    \/ \E id \in EventIds : DeleteEvent(p, id)
    \/ \E id \in EventIds : CancelMeeting(p, id)
    \/ \E c \in events \cup {Null} : CancelFindCounterpart(p, c)
    \/ \E d \in {"record", "counterpart"} \X EventIds : CancelDelete(p, d)

\* POST /events/meetings alone, with every body of MeetingBodies.
NextSchedule ==
  \E p \in Procs :
    \/ \E body \in MeetingBodies : ScheduleMeeting(p, body)
    \/ \E w \in {"student", "advisor"}, o \in SlimOutcomes : SaveSettles(p, w, o)

\* POST /events alone, with every body of WideCreateBodies.
NextCreate ==
  \E p \in Procs, body \in WideCreateBodies, o \in Outcomes :
    started < MaxCreateReqs /\ CreateEvent(p, body, o)

\* PUT /events/:id on records made by createEvent and scheduleMeeting.
NextUpdate ==
  \/ \E p \in Procs, body \in SlimMeetingBodies :
       started < MaxUpdateReqs /\ ScheduleMeeting(p, body)
  \/ \E p \in Procs, w \in {"student", "advisor"} : SaveSettles(p, w, BackendOk)
  \/ \E p \in Procs, body \in CreateBodies :
       started < MaxUpdateReqs /\ CreateEvent(p, body, BackendOk)
  \/ \E p \in Procs, id \in EventIds, body \in UpdateBodies :
       started < MaxUpdateReqs /\ UpdateEvent(p, id, body)
  \/ Tick

\* DELETE /events/:id on records made by createEvent.
NextDelete ==
  \/ \E p \in Procs, body \in ListCreateBodies : CreateEvent(p, body, BackendOk)
  \/ \E p \in Procs, id \in EventIds : DeleteEvent(p, id)

\* GET /events/user/:userId on records made by createEvent.
NextList ==
  \/ \E p \in Procs, body \in ListCreateBodies : CreateEvent(p, body, BackendOk)
  \/ \E p \in Procs, userId \in UserIds, type \in TypeParams, past \in PastParams :
       GetUserEvents(p, userId, type, past)
  \/ Tick

\* POST /api/feedback and GET /api/feedback/:id.
NextFeedback ==
  \/ \E p \in Procs, body \in FeedbackBodies, o \in SlimOutcomes :
       CreateFeedback(p, body, o)
  \/ \E p \in Procs, id \in EventIds : GetFeedbackByStudent(p, id)

\* Meetings scheduled, edited through PUT /events/:id and canceled.
NextDesync ==
  \/ \E p \in Procs, body \in SlimMeetingBodies : ScheduleMeeting(p, body)
  \/ \E p \in Procs, w \in {"student", "advisor"} : SaveSettles(p, w, BackendOk)
  \/ \E p \in Procs, id \in EventIds, body \in UpdateBodies :
       UpdateEvent(p, id, body)
  \/ \E p \in Procs, id \in EventIds : CancelMeeting(p, id)
  \/ \E p \in Procs, c \in events \cup {Null} : CancelFindCounterpart(p, c)
  \/ \E p \in Procs, d \in {"record", "counterpart"} \X EventIds :
       CancelDelete(p, d)

\* Every operation that writes event records.
NextStored ==
  \/ \E p \in Procs, body \in CreateBodies, o \in SlimOutcomes :
       CreateEvent(p, body, o)
  \/ \E p \in Procs, body \in SlimMeetingBodies : ScheduleMeeting(p, body)
  \/ \E p \in Procs, w \in {"student", "advisor"}, o \in SlimOutcomes :
       SaveSettles(p, w, o)
  \/ \E p \in Procs, id \in EventIds, body \in SchemaUpdateBodies :
       UpdateEvent(p, id, body)

\* Requests handled concurrently.
Spec == Init /\ [][Next]_vars

\* Requests handled one after the other.
SpecSerial == InitSerial /\ [][Next]_vars

\* scheduleMeeting requests only, one after the other (the two saves of a call
\* still settle in either order, and after the response when one fails).
SpecSchedule == InitSerial /\ [][NextSchedule]_vars

\* createEvent requests only.
SpecCreate == Init /\ [][NextCreate]_vars

\* updateEvent requests one after the other, the clock advancing.
SpecUpdate == InitSerial /\ [][NextUpdate]_vars

\* createEvent and deleteEvent requests; each is a single step.
SpecDelete == Init /\ [][NextDelete]_vars

\* createEvent and getUserEvents requests, the clock advancing; each request
\* is a single step.
SpecList == Init /\ [][NextList]_vars

\* Feedback requests; each is a single step.
SpecFeedback == Init /\ [][NextFeedback]_vars

\* scheduleMeeting, updateEvent and cancelMeeting requests one after the other.
SpecDesync == InitSerial /\ [][NextDesync]_vars

\* createEvent, scheduleMeeting and updateEvent requests one after the other.
SpecStored == InitSerial /\ [][NextStored]_vars

\* ------------------------------------------------------------ properties
LastIs(op) == last.req.op = op

Pair(pr) == {pr[1], pr[2]}

BothSaved(saves) == saves.student = "ok" /\ saves.advisor = "ok"

\* C1: a scheduleMeeting call whose advisorId and studentId are Users and whose
\* two writes succeed adds exactly two new records, both Meeting / User with the
\* body's name, description, date, time and duration (30 when omitted), owner
\* and related id swapped, and returns both with status 201.
C1_SchedulePair ==
  (/\ LastIs("scheduleMeeting")
   /\ UserFindById(last.req.body.advisorId)
   /\ UserFindById(last.req.body.studentId)
   /\ BothSaved(last.did.saves))
  => LET b == last.req.body
         s == last.resp.studentEvent
         a == last.resp.advisorEvent
         d == IF b.duration = UndefNum THEN 30 ELSE b.duration
     IN /\ last.resp.status = 201
        /\ last.did.written = {s, a}
        /\ s.id # a.id
        /\ \A e \in {s, a} :
             /\ e.type = "Meeting" /\ e.relatedModel = "User"
             /\ e.name = b.name /\ e.description = b.description
             /\ e.date = b.date /\ e.time = b.time /\ e.duration = d
        /\ s.user_id = b.studentId /\ s.related_id = b.advisorId
        /\ a.user_id = b.advisorId /\ a.related_id = b.studentId

C1_Witness ==
  /\ LastIs("scheduleMeeting")
  /\ last.resp.status = 201
  /\ last.req.body.duration = UndefNum
  /\ last.req.body.advisorId # last.req.body.studentId
  /\ {last.resp.studentEvent, last.resp.advisorEvent} \subseteq events

\* C2: after a scheduleMeeting call that ended in failure the store holds none
\* of the records the call tried to create.
C2_NoRecordAfterFailure ==
  (LastIs("scheduleMeeting") /\ last.resp.status = 500)
  => Ids(events) \cap {last.did.studentEvent.id, last.did.advisorEvent.id} = {}

\* C3: scheduleMeeting responds 201 only when both records were written; when a
\* write has failed the response is a failure.
C3_SuccessNeedsBothWrites ==
  (LastIs("scheduleMeeting") /\ last.resp.status # 404)
  => /\ last.resp.status = 201 =>
          /\ BothSaved(last.did.saves)
          /\ Ids(last.did.written) =
               {last.did.studentEvent.id, last.did.advisorEvent.id}
     /\ ~BothSaved(last.did.saves) => last.resp.status = 500

C3_Witness ==
  /\ LastIs("scheduleMeeting")
  /\ last.resp.status = 500
  /\ last.did.written # {}

\* C4: no write of a scheduleMeeting call takes effect on the store after the
\* call's response was sent.
C4_NoWriteAfterResponse ==
  [][\A p \in Procs :
       pc[p] = "sm_late" =>
         ~\E w \in {"student", "advisor"} :
            /\ loc[p].saves[w] = "pending"
            /\ SaveDoc(p, w) \in events' \ events]_vars

\* C5: scheduleMeeting with an advisorId that is no User responds 404 'Advisor
\* not found', with an existing advisor and a studentId that is no User 404
\* 'Student not found'; the call writes nothing and the step leaves the store
\* as it was.
C5_MissingUser ==
  [][(/\ last' # last
      /\ last'.req.op = "scheduleMeeting"
      /\ \/ last'.req.body.advisorId \notin Users
         \/ last'.req.body.studentId \notin Users)
     => /\ last'.resp =
             [status |-> 404,
              message |-> IF last'.req.body.advisorId \notin Users
                          THEN "Advisor not found" ELSE "Student not found"]
        /\ last'.did.written = {}
        /\ events' = events]_vars

C5_Witness ==
  /\ LastIs("scheduleMeeting")
  /\ last.req.body.advisorId \in Users
  /\ last.resp = [status |-> 404, message |-> "Student not found"]
  /\ events # {}

\* C6: cancelMeeting with the id of either record of a pair that is live in
\* full removes exactly the two records of the pair and reports
\* canceledEvents = 2.
C6_CancelRemovesPair ==
  \A pr \in meetings :
    (/\ LastIs("cancelMeeting")
     /\ last.req.id \in Pair(pr)
     /\ Pair(pr) \subseteq last.did.liveAtCall)
    => /\ last.resp.status = 200
       /\ last.resp.canceledEvents = 2
       /\ last.did.removed = Pair(pr)

\* C7: cancelMeeting on a live Meeting record whose counterpart was removed
\* before deletes exactly that record and reports success with
\* canceledEvents = 1.
C7_CancelLoneRecord ==
  \A pr \in meetings :
    (/\ LastIs("cancelMeeting")
     /\ last.req.id \in Pair(pr)
     /\ Pair(pr) \cap last.did.liveAtCall = {last.req.id})
    => /\ last.resp.status = 200
       /\ last.resp.canceledEvents = 1
       /\ last.did.removed = {last.req.id}

\* C8: cancelMeeting with an id that is not in the store, or the id of a record
\* that is no Meeting, responds 404 'Meeting not found'; the call removes
\* nothing and the step leaves the store as it was.
C8_CancelNotFound ==
  [][(/\ last' # last
      /\ last'.req.op = "cancelMeeting"
      /\ \/ last'.did.meetingEvent = Null
         \/ last'.did.meetingEvent.type # "Meeting")
     => /\ last'.resp = [status |-> 404, message |-> "Meeting not found"]
        /\ last'.did.removed = {}
        /\ events' = events]_vars

C8_Witness ==
  /\ LastIs("cancelMeeting")
  /\ last.resp.status = 404
  /\ \E e \in events : e.id = last.req.id /\ e.type = "Exam"

\* C9: a cancelMeeting call that responds with success reports as
\* canceledEvents the number of records the call removed.
C9_CountIsRemoved ==
  (LastIs("cancelMeeting") /\ last.resp.status = 200)
  => last.resp.canceledEvents = Cardinality(last.did.removed)

\* C10: the number of live records of a scheduled pair never increases, and
\* cancelMeeting with an id of a pair that is canceled in full responds 404
\* 'Meeting not found'.
C10_NoUncancel ==
  [][/\ \A pr \in meetings :
          Cardinality(Pair(pr) \cap Ids(events'))
            <= Cardinality(Pair(pr) \cap Ids(events))
     /\ (/\ last' # last
         /\ last'.req.op = "cancelMeeting"
         /\ \E pr \in meetings :
              /\ last'.req.id \in Pair(pr)
              /\ Pair(pr) \cap Ids(events) = {}
              /\ Pair(pr) \cap last'.did.liveAtCall = {})
        => last'.resp = [status |-> 404, message |-> "Meeting not found"]]_vars

C10_Witness ==
  /\ LastIs("cancelMeeting")
  /\ last.resp = [status |-> 404, message |-> "Meeting not found"]
  /\ \E pr \in meetings :
       /\ last.req.id \in Pair(pr)
       /\ Pair(pr) \cap Ids(events) = {}

\* A step in which a single-step handler took a request and answered it.
Handled(op) == started' # started /\ pc' = pc /\ last'.req.op = op

\* C11: every stored record has related_id present exactly when relatedModel
\* is, a relatedModel among Subject, Grade, Assignment, User, and a reference
\* to a record of that kind.
C11_RelatedPairValid ==
  \A e \in events :
    /\ e.related_id # Undef <=> e.relatedModel # Undef
    /\ e.relatedModel # Undef => e.relatedModel \in RelatedModels
    /\ e.related_id # Undef /\ e.relatedModel # Undef
         => e.related_id \in Collection(e.relatedModel)

\* C12: createEvent with an existing owner, a relatedModel K among the four and
\* a related_id that the collection of K does not hold responds 404
\* '<K> not found', persists nothing, and has looked the id up in the
\* collection of K and in no other.
C12_RelatedNotFound ==
  [][(/\ Handled("createEvent")
      /\ last'.req.body.user_id \in Users
      /\ last'.req.body.relatedModel \in RelatedModels
      /\ last'.req.body.related_id # Undef
      /\ last'.req.body.related_id
           \notin Collection(last'.req.body.relatedModel))
     => /\ last'.resp =
             [status |-> 404,
              message |-> last'.req.body.relatedModel \o " not found"]
        /\ last'.did.lookup =
             <<last'.req.body.relatedModel, last'.req.body.related_id>>
        /\ last'.did.written = {}
        /\ events' = events]_vars

C12_Witness ==
  /\ LastIs("createEvent")
  /\ last.req.body.related_id = "s1"
  /\ last.resp = [status |-> 404, message |-> "Grade not found"]
  /\ last.did.lookup = <<"Grade", "s1">>

\* C13 (createEvent, updateEvent): a relatedModel that is none of the four
\* tags is answered 400 'Invalid related model' and nothing is persisted or
\* modified.
C13_InvalidModelRejected ==
  (/\ last.req.op \in {"createEvent", "updateEvent"}
   /\ last.req.body.relatedModel \notin RelatedModels \cup {Undef})
  => /\ last.resp = [status |-> 400, message |-> "Invalid related model"]
     /\ last.did.written = {}

\* C14: createEvent with a user_id that is no User responds 404 'User not
\* found' and persists nothing, whatever the other fields; a 201 carries the
\* record the call has added to the store, built from the body.
C14_OwnerChecked ==
  [][Handled("createEvent")
     => /\ last'.req.body.user_id \notin Users
             => /\ last'.resp = [status |-> 404, message |-> "User not found"]
                /\ last'.did.written = {}
                /\ events' = events
        /\ last'.resp.status = 201
             => /\ last'.resp.event \notin events
                /\ events' = events \cup {last'.resp.event}
                /\ last'.did.written = {last'.resp.event}
                /\ last'.resp.event.id \notin Ids(events)
                /\ \A f \in DOMAIN last'.req.body :
                     last'.resp.event[f] = last'.req.body[f]]_vars

C14_Witness ==
  /\ LastIs("createEvent")
  /\ last.resp = [status |-> 404, message |-> "User not found"]
  /\ last.req.body.relatedModel = "Bogus"
  /\ last.req.body.related_id # Undef
  /\ last.req.body.name = Undef
  /\ events # {}

\* C20: a createEvent request that fails schema validation (name or date
\* missing, type outside the enum) is answered with a 4xx status and persists
\* nothing.
C20_ValidationIs4xx ==
  (/\ LastIs("createEvent")
   /\ last.req.body.user_id \in Users
   /\ \/ last.req.body.name = Undef
      \/ last.req.body.date = UndefNum
      \/ last.req.body.type \notin EventTypes)
  => /\ last.resp.status \in 400..499
     /\ last.did.written = {}

\* C16: an updateEvent answered 200 has replaced the record with one in which
\* every field of the body that was supplied has the body's value, every other
\* updatable field keeps its stored value, updated_at is the current time, and
\* id, user_id and created_at are what they were; the response carries it.
C16_UpdateFrame ==
  [][(Handled("updateEvent") /\ last'.resp.status = 200)
     => \E e \in events :
          LET a == last'.resp.event
              b == last'.req.body
          IN /\ e.id = last'.req.id
             /\ a \in events'
             /\ \A f \in UpdateFields :
                  a[f] = IF IsUndefined(f, b[f]) THEN e[f] ELSE b[f]
             /\ a.updated_at = now
             /\ a.id = e.id
             /\ a.user_id = e.user_id
             /\ a.created_at = e.created_at]_vars

C16_Witness ==
  /\ LastIs("updateEvent")
  /\ last.resp.status = 200
  /\ last.req.body.date = 2
  /\ last.req.body.name = Undef
  /\ last.req.body.relatedModel = Undef
  /\ last.req.body.user_id = "u2"
  /\ last.resp.event.date = 2
  /\ last.resp.event.name = "Advising"
  /\ last.resp.event.relatedModel = "User"
  /\ last.resp.event.user_id = "u1"
  /\ last.resp.event.created_at = 1
  /\ last.resp.event.updated_at = 2

\* C17 as stated: updateEvent with an id that is not in the store responds 404
\* 'Event not found' and changes no record, whatever the body.
C17_AbsentIdIs404 ==
  [][(Handled("updateEvent") /\ last'.req.id \notin Ids(events))
     => /\ last'.resp = [status |-> 404, message |-> "Event not found"]
        /\ events' = events]_vars

\* C17 amended: updateEvent with an id that is not in the store changes no
\* record; it responds 404 'Event not found' unless the body carries both
\* related_id and relatedModel and that reference fails validation, which is
\* answered first: 400 'Invalid related model' for a relatedModel outside the
\* four, 404 '<K> not found' for a related_id the collection of K lacks.
C17_AbsentIdAmended ==
  [][(Handled("updateEvent") /\ last'.req.id \notin Ids(events))
     => LET b == last'.req.body
            both == b.related_id # Undef /\ b.relatedModel # Undef
        IN /\ events' = events
           /\ last'.resp =
                IF both /\ b.relatedModel \notin RelatedModels
                THEN [status |-> 400, message |-> "Invalid related model"]
                ELSE IF both /\ b.related_id \notin Collection(b.relatedModel)
                THEN [status |-> 404,
                      message |-> b.relatedModel \o " not found"]
                ELSE [status |-> 404, message |-> "Event not found"]]_vars

C17_Witness ==
  /\ LastIs("updateEvent")
  /\ last.req.id \notin Ids(events)
  /\ events # {}
  /\ last.req.body.related_id = "s1"
  /\ last.req.body.relatedModel = "Subject"
  /\ last.resp = [status |-> 404, message |-> "Event not found"]

\* C19: an updateEvent call leaves every record whose id is not the given one
\* as it was, the counterpart of an updated Meeting record included, and adds
\* no record.
C19_UpdateSingleRecord ==
  [][Handled("updateEvent")
     => /\ \A e \in events : e.id # last'.req.id => e \in events'
        /\ \A e \in events' : e.id # last'.req.id => e \in events
        /\ Ids(events') = Ids(events)]_vars

C19_Witness ==
  /\ LastIs("updateEvent")
  /\ last.resp.status = 200
  /\ last.resp.event.type = "Meeting"
  /\ last.resp.event.date = 2
  /\ \E c \in events :
       /\ c.id # last.req.id
       /\ c.type = "Meeting"
       /\ c.date = 1
       /\ c.user_id = last.resp.event.related_id
       /\ c.related_id = last.resp.event.user_id

\* C18: deleteEvent on an id in the store removes that record and no other and
\* responds 200; on an id not in the store it responds 404 'Event not found'
\* and leaves the store as it is; an id that has left the store never comes
\* back, so every later deleteEvent on it responds 404.
C18_DeleteOnce ==
  [][/\ Handled("deleteEvent")
          => IF last'.req.id \in Ids(events)
             THEN /\ last'.resp.status = 200
                  /\ events' \subseteq events
                  /\ Cardinality(events \ events') = 1
                  /\ last'.req.id \notin Ids(events')
             ELSE /\ last'.resp = [status |-> 404, message |-> "Event not found"]
                  /\ events' = events
     /\ \A i \in EventIds :
          (i < nextId /\ i \notin Ids(events)) => i \notin Ids(events')
     /\ \A i \in Ids(events) : i < nextId]_vars

C18_Witness ==
  /\ LastIs("deleteEvent")
  /\ last.resp = [status |-> 404, message |-> "Event not found"]
  /\ last.req.id = 1
  /\ nextId = 2
  /\ events = {}

\* C15: getUserEvents for an existing user responds 200 with each stored event
\* of that user that passes the date filter (date < now when past is 'true',
\* date >= now when past is absent or 'false') and has the given type if one
\* is given, each once and no other, sorted by date descending when past is
\* 'true' and ascending otherwise; for a userId that is no User it responds
\* 404.  The store is not changed.
C15_UserEventsListed ==
  [][Handled("getUserEvents")
     => /\ events' = events
        /\ IF last'.req.userId \notin Users
           THEN last'.resp = [status |-> 404, message |-> "User not found"]
           ELSE LET q == last'.req
                    r == last'.resp.events
                    wanted ==
                      {e \in events :
                         /\ e.user_id = q.userId
                         /\ IF q.past = "true" THEN e.date < now
                                               ELSE e.date >= now
                         /\ q.type # Undef => e.type = q.type}
                IN /\ last'.resp.status = 200
                   /\ {r[i] : i \in DOMAIN r} = wanted
                   /\ Len(r) = Cardinality(wanted)
                   /\ \A i, j \in DOMAIN r :
                        i < j => IF q.past = "true"
                                 THEN r[i].date >= r[j].date
                                 ELSE r[i].date <= r[j].date]_vars

C15_Witness ==
  /\ LastIs("getUserEvents")
  /\ last.req.past = "true"
  /\ last.req.type = "Exam"
  /\ last.resp.status = 200
  /\ Len(last.resp.events) = 2
  /\ last.resp.events[1].date > last.resp.events[2].date
  /\ now = 2

\* C21: the body of a 5xx response of an event operation does not depend on
\* the content of the underlying error: no field of it carries the message the
\* backend rejected with, so two runs that differ only in that message are
\* answered alike.
C21_GenericFailure ==
  last.resp.status >= 500
  => \A f \in DOMAIN last.resp \ {"status"} : last.resp[f] \notin BackendErrors

\* C22: GET /api/feedback/{id} responds 200 with the feedback entry whose id is
\* the path parameter when the store holds one, and 404 'Feedback not found'
\* otherwise.
C22_FeedbackById ==
  [][Handled("getFeedback")
     => IF \E f \in feedback : f.id = last'.req.id
        THEN /\ last'.resp.status = 200
             /\ last'.resp.feedback \in feedback
             /\ last'.resp.feedback.id = last'.req.id
        ELSE last'.resp = [status |-> 404, message |-> "Feedback not found"]]_vars

\* The records the counterpart query of cancelMeeting matches from record m.
Counterparts(m) == {e \in events : CounterpartFilter(m, e)}

\* Every scheduleMeeting call so far has succeeded and nothing else has
\* written: the store holds exactly the records of the pairs returned.
OnlyScheduledPairs ==
  /\ \A p \in Procs : Free(p)
  /\ Ids(events) = UNION {Pair(pr) : pr \in meetings}

\* C23: after any sequence of successful scheduleMeeting calls, the
\* counterpart query issued from any Meeting record in the store matches
\* exactly one record, and that record is not the record itself.
C23_OneCounterpart ==
  OnlyScheduledPairs
  => \A m \in events :
       m.type = "Meeting"
       => /\ Cardinality(Counterparts(m)) = 1
          /\ m \notin Counterparts(m)

\* The record with the given id in a set of records that holds one.
RecordIn(S, id) == CHOOSE e \in S : e.id = id

\* C25: when the two records of a pair are both live and differ in date or
\* time (one of them was edited by updateEvent), a cancelMeeting on either of
\* them removes only that record, reports canceledEvents = 1 and leaves the
\* other record in the store.
C25_DesyncCancelsOne ==
  \A pr \in meetings :
    (/\ LastIs("cancelMeeting")
     /\ last.req.id \in Pair(pr)
     /\ Pair(pr) \subseteq Ids(last.did.storeAtCall)
     /\ LET a == RecordIn(last.did.storeAtCall, pr[1])
            b == RecordIn(last.did.storeAtCall, pr[2])
        IN a.date # b.date \/ a.time # b.time)
    => /\ last.resp.status = 200
       /\ last.resp.canceledEvents = 1
       /\ last.did.removed = {last.req.id}
       /\ Pair(pr) \ {last.req.id} \subseteq Ids(events)

\* C24: every stored event record has a non-empty name, a date, an owner and
\* a type among Assignment, Exam, Reminder, Meeting.
C24_StoredRecordsValid ==
  \A e \in events :
    /\ e.name \notin {Undef, ""}
    /\ e.date # UndefNum
    /\ e.user_id # Undef
    /\ e.type \in EventTypes

====
